---- MODULE Spec2Model ----
(***************************************************************************)
(* Model of the `ident` crate (src/src/lib.rs): a 100-bit identifier kept  *)
(* in a u128, its construction from the clock and a random draw, and its   *)
(* 22-byte base-32 text codec (encode_array / decode).                     *)
(*                                                                         *)
(* TLC's integers are 32 bits wide, so a u128 is represented exactly, as   *)
(* the set of the positions of its one bits (bit 0 is the least            *)
(* significant).  A byte is an integer in 0..255 and a byte string is a    *)
(* sequence of bytes.                                                      *)
(***************************************************************************)
EXTENDS Integers, Sequences, FiniteSets

\* ------------------------------------------------------------------------
\* Program constants (src/src/lib.rs:17-28)
\* ------------------------------------------------------------------------
U128_BITS == 128
STR_LEN == 22
SEP_IDX == <<6, 15>>
RND_BITS == 64
ID_BITS == 100
SECOND_EPOCH == 1577836800
TIME_SHIFT == 5

\* b'-'
SEP == 45

\* CHARS with the letters before the digits: "abcdefghjkmnpqrstvwxyz0123456789".
CHARS_letters_first ==
  << 97, 98, 99, 100, 101, 102, 103, 104, 106, 107,
     109, 110, 112, 113, 114, 115, 116, 118, 119, 120, 121, 122,
     48, 49, 50, 51, 52, 53, 54, 55, 56, 57 >>

\* "0123456789abcdefghjkmnpqrstvwxyz" as bytes; CHARS[d + 1] is digit d.
CHARS ==
  << 48, 49, 50, 51, 52, 53, 54, 55, 56, 57,
     97, 98, 99, 100, 101, 102, 103, 104, 106, 107,
     109, 110, 112, 113, 114, 115, 116, 118, 119, 120, 121, 122 >>

Byte == 0..255

\* ------------------------------------------------------------------------
\* u128 arithmetic on bit sets
\* ------------------------------------------------------------------------
BitPos == 0..(U128_BITS - 1)

\* The bit set of a small natural number n < 2^31.
FromInt(n) == {i \in 0..30 : (n \div (2 ^ i)) % 2 = 1}

\* The number of a bit set with no bit above 30.
RECURSIVE ToInt(_)
ToInt(a) ==
  IF a = {} THEN 0
  ELSE LET i == CHOOSE j \in a : TRUE IN (2 ^ i) + ToInt(a \ {i})

\* The k-th 20-bit limb of a, as a number: arithmetic is done limb by limb.
Limb(a, k) == ToInt({i - 20 * k : i \in {j \in a : j \div 20 = k}})

\* The bit set of the number n < 2^20 placed at limb k.
AtLimb(n, k) == {i + 20 * k : i \in FromInt(n)}

\* Exact sum of two naturals (the result may pass bit 127).
RECURSIVE AddFrom(_, _, _, _)
AddFrom(a, b, k, carry) ==
  IF carry = 0 /\ \A i \in a \cup b : i \div 20 < k THEN {}
  ELSE LET s == Limb(a, k) + Limb(b, k) + carry IN
       AtLimb(s % (2 ^ 20), k) \cup AddFrom(a, b, k + 1, s \div (2 ^ 20))

NatAdd(a, b) == AddFrom(a, b, 0, 0)

\* Truncation to the 128 bits of a u128.
Wrap(a) == a \cap BitPos

\* a << k on u128: bits shifted past bit 127 are lost.
Shl(a, k) == Wrap({i + k : i \in a})

\* a >> k on u128.
Shr(a, k) == {i - k : i \in {j \in a : j >= k}}

\* (1 << k) - 1
LowMask(k) == 0..(k - 1)

\* a < b as unsigned integers.
Lt(a, b) ==
  /\ a # b
  /\ LET d == (a \ b) \cup (b \ a)
         top == CHOOSE i \in d : \A j \in d : j <= i
     IN  top \in b

Le(a, b) == a = b \/ Lt(a, b)

\* Exact product of a natural and a small natural m <= 1000.
RECURSIVE MulFrom(_, _, _, _)
MulFrom(a, m, k, carry) ==
  IF carry = 0 /\ \A i \in a : i \div 20 < k THEN {}
  ELSE LET s == Limb(a, k) * m + carry IN
       AtLimb(s % (2 ^ 20), k) \cup MulFrom(a, m, k + 1, s \div (2 ^ 20))

NatMul(a, m) == MulFrom(a, m, 0, 0)

\* u128::wrapping_mul by a digit.
wrapping_mul(a, k) == Wrap(NatMul(a, k))

\* Two's complement difference a - b modulo 2^128.
WrapSub(a, b) == Wrap(NatAdd(NatAdd(a, BitPos \ b), {0}))

\* a / d on u128, d a small positive integer <= 1000: long division from the
\* top limb down.
RECURSIVE DivFrom(_, _, _, _)
DivFrom(a, d, k, r0) ==
  IF k < 0 THEN {}
  ELSE LET r == r0 * (2 ^ 20) + Limb(a, k) IN
       AtLimb(r \div d, k) \cup DivFrom(a, d, k - 1, r % d)

Div(a, d) == DivFrom(a, d, (U128_BITS - 1) \div 20, 0)

\* ------------------------------------------------------------------------
\* Constants derived from the program constants
\* ------------------------------------------------------------------------
\* (1 << RND_BITS) - 1
RND_MASK == LowMask(RND_BITS)

\* (1 << ID_BITS) - 1
ID_MASK == LowMask(ID_BITS)

\* MOST_SIGNIFICANT_POSITION with the separators counted as digits.
MOST_SIGNIFICANT_POSITION_no_sep == Shl(FromInt(32), 5 * (STR_LEN - 2))

\* 32 << (5 * (STR_LEN - SEP_IDX.len() - 2))
MOST_SIGNIFICANT_POSITION == Shl(FromInt(32), 5 * (STR_LEN - Len(SEP_IDX) - 2))

\* [-1i8; 256] with arr[CHARS[i]] = i for every i < CHARS.len().
DECODE_MAP ==
  [b \in Byte |->
     IF \E i \in 1..Len(CHARS) : CHARS[i] = b
     THEN (CHOOSE i \in 1..Len(CHARS) : CHARS[i] = b) - 1
     ELSE -1]

\* ------------------------------------------------------------------------
\* Result<u128, Error> values, and the outcome of a panic
\* ------------------------------------------------------------------------
None == [tag |-> "None", val |-> {}, byte |-> 0, len |-> 0]
Ok(v) == [tag |-> "Ok", val |-> v, byte |-> 0, len |-> 0]
InvalidDigit(b) == [tag |-> "InvalidDigit", val |-> {}, byte |-> b, len |-> 0]
InvalidStrLen(l) == [tag |-> "InvalidStrLen", val |-> {}, byte |-> 0, len |-> l]
Panic == [tag |-> "Panic", val |-> {}, byte |-> 0, len |-> 0]

VARIABLES
  overflow_checks,  \* the build: are +, - checked for overflow (debug) or not
  slot,             \* the identifiers a client holds, each with its history
  dec               \* the frame of one call of decode, loop iteration by iteration

vars == <<overflow_checks, slot, dec>>

\* ------------------------------------------------------------------------
\* The codec
\* ------------------------------------------------------------------------
\* a + b on u128: exact when it fits; otherwise a panic when the build checks
\* overflow, and the wrapped sum when it does not.
AddU128(a, b) ==
  LET s == NatAdd(a, b) IN
  IF s \subseteq BitPos THEN Ok(s)
  ELSE IF overflow_checks THEN Panic ELSE Ok(Wrap(s))

\* a - b on u128, likewise.
SubU128(a, b) ==
  IF Le(b, a) THEN Ok(WrapSub(a, b))
  ELSE IF overflow_checks THEN Panic ELSE Ok(WrapSub(a, b))

map_byte(byte) ==
  LET mapped == DECODE_MAP[byte] IN
  IF mapped = -1 \/ mapped = -2 THEN InvalidDigit(byte)
  ELSE [tag |-> "Ok", val |-> {}, byte |-> mapped, len |-> 0]

\* decode_enter rejecting only the strings that are too long.
decode_enter_too_long_only(input) ==
  IF Len(input) > STR_LEN
  THEN [pc |-> "done", arg |-> input, input |-> input, place |-> {}, n |-> {},
        ret |-> InvalidStrLen(Len(input))]
  ELSE [pc |-> "loop", arg |-> input, input |-> input,
        place |-> MOST_SIGNIFICANT_POSITION, n |-> {}, ret |-> None]

\* The frame of decode on entry: the length check, then place and n.
decode_enter(input) ==
  IF Len(input) # STR_LEN
  THEN [pc |-> "done", arg |-> input, input |-> input, place |-> {}, n |-> {},
        ret |-> InvalidStrLen(Len(input))]
  ELSE [pc |-> "loop", arg |-> input, input |-> input,
        place |-> MOST_SIGNIFICANT_POSITION, n |-> {}, ret |-> None]

\* decode_iter with the place value moved on for a separator too.
decode_iter_sep_place(st) ==
  IF st.input = <<>> THEN [st EXCEPT !.pc = "done", !.ret = Ok(st.n)]
  ELSE
    LET byte == Head(st.input)
        rest == Tail(st.input)
    IN
    IF byte = SEP THEN [st EXCEPT !.input = rest, !.place = Shr(st.place, 5)]
    ELSE
      LET digit == map_byte(byte) IN
      IF digit.tag # "Ok"
      THEN [st EXCEPT !.pc = "done", !.input = rest, !.ret = digit]
      ELSE
        LET sum == AddU128(st.n, wrapping_mul(st.place, digit.byte)) IN
        IF sum.tag # "Ok"
        THEN [st EXCEPT !.pc = "done", !.input = rest, !.ret = sum]
        ELSE [st EXCEPT !.input = rest, !.n = sum.val,
                        !.place = Shr(st.place, 5)]

\* One evaluation of `while let [byte, rest @ ..] = input { ... }`, or the
\* final Ok(n) once the input is empty.
decode_iter(st) ==
  IF st.input = <<>> THEN [st EXCEPT !.pc = "done", !.ret = Ok(st.n)]
  ELSE
    LET byte == Head(st.input)
        rest == Tail(st.input)
    IN
    IF byte = SEP THEN [st EXCEPT !.input = rest]
    ELSE
      LET digit == map_byte(byte) IN
      IF digit.tag # "Ok"
      THEN [st EXCEPT !.pc = "done", !.input = rest, !.ret = digit]
      ELSE
        LET sum == AddU128(st.n, wrapping_mul(st.place, digit.byte)) IN
        IF sum.tag # "Ok"
        THEN [st EXCEPT !.pc = "done", !.input = rest, !.ret = sum]
        ELSE [st EXCEPT !.input = rest, !.n = sum.val,
                        !.place = Shr(st.place, 5)]

RECURSIVE decode_run(_)
decode_run(st) == IF st.pc = "done" THEN st.ret ELSE decode_run(decode_iter(st))

decode(input) == decode_run(decode_enter(input))

to_100bit(n) == n \cap ID_MASK

\* ZERO_BUF without the separators: *b"0000000000000000000000".
ZERO_BUF_no_sep == [i \in 1..STR_LEN |-> 48]

\* *b"000000-00000000-000000"
ZERO_BUF ==
  << 48, 48, 48, 48, 48, 48, 45, 48, 48, 48, 48, 48, 48, 48, 48, 45,
     48, 48, 48, 48, 48, 48 >>

\* encode_loop writing a digit at the separator indices too.
RECURSIVE encode_loop_no_skip(_, _, _)
encode_loop_no_skip(n, buf, idx) ==
  IF idx < STR_LEN
  THEN encode_loop_no_skip(
         Shl(n, 5),
         [buf EXCEPT ![idx + 1] =
            CHARS[ToInt(Shr(n, ID_BITS - 5) \cap LowMask(5)) + 1]],
         idx + 1)
  ELSE buf

\* The body of `while idx < STR_LEN` of encode_array, idx counted from 0.
RECURSIVE encode_loop(_, _, _)
encode_loop(n, buf, idx) ==
  IF idx < STR_LEN
  THEN IF ~(idx = SEP_IDX[1] \/ idx = SEP_IDX[2])
       THEN encode_loop(
              Shl(n, 5),
              [buf EXCEPT ![idx + 1] =
                 CHARS[ToInt(Shr(n, ID_BITS - 5) \cap LowMask(5)) + 1]],
              idx + 1)
       ELSE encode_loop(n, buf, idx + 1)
  ELSE buf

encode_array(n0) ==
  LET n == to_100bit(n0) IN
  IF n = {} THEN ZERO_BUF ELSE encode_loop(n, ZERO_BUF, 0)

\* ------------------------------------------------------------------------
\* Id
\* ------------------------------------------------------------------------
\* ((dur.as_millis() - (SECOND_EPOCH * 1_000)) << TIME_SHIFT) / 1_000
timestamp_from_unix_dur(ms) ==
  LET d == SubU128(ms, NatMul(FromInt(SECOND_EPOCH), 1000)) IN
  IF d.tag # "Ok" THEN d
  ELSE Ok(Div(Shl(d.val, TIME_SHIFT), 1000))

\* Id_new with the random draw not masked to its 64 bits.
Id_new_unmasked(clock, rnd) ==
  IF ~clock.ok THEN Panic
  ELSE
    LET time == timestamp_from_unix_dur(clock.ms) IN
    IF time.tag # "Ok" THEN time
    ELSE Ok(Shl(time.val, RND_BITS) \cup rnd)

\* Id::new, given what SystemTime::now().duration_since(UNIX_EPOCH) and
\* fastrand::u128(..) return.  clock.ok is FALSE for a clock before 1970.
Id_new(clock, rnd) ==
  IF ~clock.ok THEN Panic
  ELSE
    LET time == timestamp_from_unix_dur(clock.ms) IN
    IF time.tag # "Ok" THEN time
    ELSE Ok(Shl(time.val, RND_BITS) \cup (rnd \cap RND_MASK))

\* Id::from_u128
Id_from_u128(x) == Ok(x \cap LowMask(ID_BITS))

\* impl From<u128> for Id
Id_from(x) == Ok(x)

\* impl FromStr for Id
Id_from_str(s) == decode(s)

\* impl Display for Id
Id_to_string(v) == encode_array(v)

\* ------------------------------------------------------------------------
\* Bounds and the inputs drawn within them
\* ------------------------------------------------------------------------
\* How many of BoundaryBits an integer input may have set at once.
MaxBits == 2
\* How many bytes of a well-formed string an input string may have replaced.
MaxEdits == 2
\* The longest input string of a length other than STR_LEN.
MaxLen == 24
\* How many tick boundaries after the epoch the clock readings straddle.
MaxTicks == 2

\* The bits next to the ends of the three digit groups, of the 100-bit value
\* and of the u128.
BoundaryBits == {0, 4, 5, 29, 30, 69, 70, 95, 99, 100, 127}

\* The digit d at the p-th base-32 place (p = 0 is the last character).
AtDigit(d, p) == {i + 5 * p : i \in FromInt(d)}

U128Inputs ==
  {{k} : k \in BitPos}
    \cup {LowMask(k) : k \in {ID_BITS - 1, ID_BITS, ID_BITS + 1, U128_BITS}}
    \cup {x \in SUBSET BoundaryBits : Cardinality(x) <= MaxBits}
    \cup {AtDigit(d, p) : d \in 0..31, p \in 0..(ID_BITS \div 5 - 1)}

\* The integers of which two identifiers are made and compared.
PairU128Inputs ==
  {AtDigit(d, 0) : d \in 0..31}
    \cup {AtDigit(d, p) : d \in {1, 31}, p \in {5, 6, 13, 14, 19}}
    \cup {LowMask(ID_BITS), {ID_BITS}}
    \cup {x \in SUBSET {0, 30, 99} : Cardinality(x) <= MaxBits}

\* Six, eight and six times the byte c, with the separators in between.
Canon(c) == [i \in 1..STR_LEN |-> IF i - 1 = SEP_IDX[1] \/ i - 1 = SEP_IDX[2]
                                  THEN SEP ELSE c]

\* The string s repeated or cut to the length l.
Resize(s, l) == [i \in 1..l |-> s[((i - 1) % Len(s)) + 1]]

\* The places edited: ends of the three groups and the two separators.
EditPositions == {1, 6, 7, 8, 16, 22}

\* '-', '1', 'z', 'Z', '!'
EditBytes == {45, 49, 122, 90, 33}

RECURSIVE Edited(_, _)
Edited(S, k) ==
  IF k = 0 THEN S
  ELSE LET T == Edited(S, k - 1) IN
       T \cup {[s EXCEPT ![p] = b] : s \in T, p \in EditPositions, b \in EditBytes}

\* '0', 'z'
BaseStrings == {Canon(48), Canon(122)}

StrInputs ==
  Edited(BaseStrings, MaxEdits)
    \cup {Resize(s, l) : s \in BaseStrings \cup {Canon(33), Canon(SEP), <<122>>},
                          l \in 0..MaxLen}

\* SECOND_EPOCH * 1_000
EpochMs == NatMul(FromInt(SECOND_EPOCH), 1000)

\* The first millisecond after the epoch at which the tick count is k.
TickStart(k) == (1000 * k + 31) \div 32

\* The last millisecond after the epoch whose tick count fits in 36 bits.
LastMs == NatAdd(NatMul(FromInt(2147483647), 1000), FromInt(999))

\* What duration_since(UNIX_EPOCH) returns: an error before 1970, else the
\* milliseconds since 1970.
ClockInputs ==
  {[ok |-> FALSE, ms |-> {}]}
    \cup {[ok |-> TRUE, ms |-> m] :
            m \in {{}, WrapSub(EpochMs, {0}), EpochMs,
                   NatAdd(EpochMs, LastMs),
                   NatAdd(EpochMs, NatAdd(LastMs, {0}))}
                  \cup {NatAdd(EpochMs, FromInt(TickStart(k) - e)) :
                          k \in 1..MaxTicks, e \in {0, 1}}}

\* What fastrand::u128(..) returns.
RndInputs == {{}, {0}, LowMask(RND_BITS), BitPos}

\* ------------------------------------------------------------------------
\* The state machine
\* ------------------------------------------------------------------------
Slots == {1, 2}

Empty ==
  [op |-> "none", arg |-> {}, clock |-> [ok |-> FALSE, ms |-> {}],
   src |-> <<>>, id |-> None, text |-> <<>>, back |-> None]

Idle ==
  [pc |-> "idle", arg |-> <<>>, input |-> <<>>, place |-> {}, n |-> {},
   ret |-> None]

\* A client makes its identifiers one after the other.
CanMake(i) == slot[i].op = "none" /\ (i = 1 \/ slot[1].op # "none")

Init ==
  /\ overflow_checks \in BOOLEAN
  /\ slot = [i \in Slots |-> Empty]
  /\ dec = Idle

\* let id = Id::new();
New(i, clock, rnd) ==
  /\ CanMake(i)
  /\ slot' = [slot EXCEPT ![i] = [Empty EXCEPT !.op = "new", !.clock = clock,
                                                !.arg = rnd,
                                                !.id = Id_new(clock, rnd)]]
  /\ UNCHANGED <<overflow_checks, dec>>

\* let id = Id::from_u128(x);
FromU128(i, x) ==
  /\ CanMake(i)
  /\ slot' = [slot EXCEPT ![i] = [Empty EXCEPT !.op = "from_u128", !.arg = x,
                                                !.id = Id_from_u128(x)]]
  /\ UNCHANGED <<overflow_checks, dec>>

\* let id = Id::from(x);
From(i, x) ==
  /\ CanMake(i)
  /\ slot' = [slot EXCEPT ![i] = [Empty EXCEPT !.op = "from", !.arg = x,
                                                !.id = Id_from(x)]]
  /\ UNCHANGED <<overflow_checks, dec>>

\* let id = Id::from_str(s);
FromStr(i, s) ==
  /\ CanMake(i)
  /\ slot' = [slot EXCEPT ![i] = [Empty EXCEPT !.op = "from_str", !.src = s,
                                                !.id = Id_from_str(s)]]
  /\ UNCHANGED <<overflow_checks, dec>>

\* let text = id.to_string();
ToString(i) ==
  /\ slot[i].id.tag = "Ok"
  /\ slot[i].text = <<>>
  /\ slot' = [slot EXCEPT ![i].text = Id_to_string(slot[i].id.val)]
  /\ UNCHANGED <<overflow_checks, dec>>

\* let back = Id::from_str(&text);
Reparse(i) ==
  /\ slot[i].text # <<>>
  /\ slot[i].back.tag = "None"
  /\ slot' = [slot EXCEPT ![i].back = Id_from_str(slot[i].text)]
  /\ UNCHANGED <<overflow_checks, dec>>

\* decode(input) is entered.
DecodeCall(s) ==
  /\ dec.pc = "idle"
  /\ dec' = decode_enter(s)
  /\ UNCHANGED <<overflow_checks, slot>>

\* One iteration of the loop of decode, or its return.
DecodeIter ==
  /\ dec.pc = "loop"
  /\ dec' = decode_iter(dec)
  /\ UNCHANGED <<overflow_checks, slot>>

\* One identifier, made in any of the four ways, printed and parsed back.
Next ==
  \/ \E clock \in ClockInputs, rnd \in RndInputs : New(1, clock, rnd)
  \/ \E x \in U128Inputs : FromU128(1, x)
  \/ \E x \in U128Inputs : From(1, x)
  \/ \E s \in StrInputs : FromStr(1, s)
  \/ ToString(1)
  \/ Reparse(1)

Spec == Init /\ [][Next]_vars

\* Two identifiers, the second made after the first, each printed.
NextPair ==
  \E i \in Slots :
    \/ \E clock \in ClockInputs, rnd \in RndInputs : New(i, clock, rnd)
    \/ \E x \in PairU128Inputs : FromU128(i, x)
    \/ ToString(i)

SpecPair == Init /\ [][NextPair]_vars

\* One call of decode, iteration by iteration.
NextDecode ==
  \/ \E s \in StrInputs : DecodeCall(s)
  \/ DecodeIter

SpecDecode == Init /\ [][NextDecode]_vars

\* ------------------------------------------------------------------------
\* Vocabulary of the properties
\* ------------------------------------------------------------------------
\* The 32 characters of the text form: 0-9 and a-z without i, l, o, u.
AlphabetBytes == (48..57) \cup ((97..122) \ {105, 108, 111, 117})

\* The places (counted from 1) of the two separators; the others hold digits.
SepPlaces == {7, 16}
DataPlaces == (1..22) \ SepPlaces

\* The low 100 bits of a number.
Low100(x) == {b \in x : b < 100}

IsCanonical(s) ==
  /\ Len(s) = 22
  /\ \A k \in SepPlaces : s[k] = 45
  /\ \A k \in DataPlaces : s[k] \in AlphabetBytes

\* s with its uppercase letters made lowercase.
Lower(s) == [k \in 1..Len(s) |-> IF s[k] \in 65..90 THEN s[k] + 32 ELSE s[k]]

\* s before t in the byte-wise lexicographic order.
LexLt(s, t) ==
  \/ Len(s) < Len(t) /\ \A j \in 1..Len(s) : s[j] = t[j]
  \/ \E k \in 1..Len(s) :
       /\ k <= Len(t)
       /\ s[k] < t[k]
       /\ \A j \in 1..(k - 1) : s[j] = t[j]

\* The tick count an identifier made by Id::new carries above its random bits.
TicksOf(i) == Shr(slot[i].id.val, 64)

\* Slot i holds an identifier made by Id::new from a clock at or after the
\* 2020-01-01 epoch.
MadeAfterEpoch(i) ==
  /\ slot[i].op = "new"
  /\ slot[i].clock.ok
  /\ Le(EpochMs, slot[i].clock.ms)

\* ------------------------------------------------------------------------
\* The claims
\* ------------------------------------------------------------------------
\* C1: decoding the text of any identifier value x gives Ok(x mod 2^100):
\* whenever the text printed from an identifier has been parsed back, the
\* result is Ok of the low 100 bits of the value printed (and so the value
\* itself when it has 100 bits).
C1_RoundTrip ==
  \A i \in Slots :
    slot[i].back.tag # "None" =>
      /\ slot[i].back.tag = "Ok"
      /\ slot[i].back.val = Low100(slot[i].id.val)

\* C1 witness: the all-ones u128 went through from_u128, to_string and
\* from_str and came back as 2^100 - 1.
C1_Witness ==
  /\ slot[1].op = "from_u128"
  /\ slot[1].arg = 0..127
  /\ slot[1].back.tag = "Ok"
  /\ slot[1].back.val = 0..99

\* C2: each conversion from a u128 x (Id::from_u128 and From<u128>::from)
\* stores x mod 2^100, so no identifier made from an integer has a bit at
\* position 100 or above.
C2_FromIntegerMasks ==
  \A i \in Slots :
    slot[i].op \in {"from_u128", "from"} =>
      /\ slot[i].id.tag = "Ok"
      /\ slot[i].id.val = Low100(slot[i].arg)

\* C3: the text of any value is 22 bytes, '-' exactly at the indices 6 and 15,
\* a character of the alphabet everywhere else; a value with no bit below
\* bit 100 prints as "000000-00000000-000000".
C3_EncodeFormat ==
  \A i \in Slots :
    slot[i].text # <<>> =>
      /\ Len(slot[i].text) = 22
      /\ \A k \in 1..22 : (slot[i].text[k] = 45) <=> (k \in SepPlaces)
      /\ \A k \in DataPlaces : slot[i].text[k] \in AlphabetBytes
      /\ Low100(slot[i].id.val) = {} =>
           /\ \A k \in DataPlaces : slot[i].text[k] = 48
           /\ \A k \in SepPlaces : slot[i].text[k] = 45

\* C3 witness: the value 2^100, which has no bit below bit 100, was printed.
C3_Witness ==
  /\ slot[1].op = "from"
  /\ slot[1].arg = {100}
  /\ slot[1].text # <<>>

\* C4: decode of a string whose length n is not 22 returns InvalidStrLen(n)
\* and has looked at none of its bytes.
C4_LengthChecked ==
  (dec.pc # "idle" /\ Len(dec.arg) # 22) =>
    /\ dec.pc = "done"
    /\ dec.ret.tag = "InvalidStrLen"
    /\ dec.ret.len = Len(dec.arg)
    /\ dec.input = dec.arg

\* C4 witness: a 21-byte string of characters outside the alphabet was
\* refused for its length.
C4_Witness ==
  /\ dec.pc = "done"
  /\ Len(dec.arg) = 21
  /\ dec.arg[1] = 33
  /\ dec.ret.tag = "InvalidStrLen"

\* C5: a canonical string (22 bytes, '-' at indices 6 and 15, alphabet
\* characters elsewhere) parses, and the value parsed prints as that string.
C5_CanonicalRoundTrip ==
  \A i \in Slots :
    (slot[i].op = "from_str" /\ IsCanonical(slot[i].src)) =>
      /\ slot[i].id.tag = "Ok"
      /\ slot[i].text # <<>> => slot[i].text = slot[i].src

\* C5 witness: a canonical string other than the all-zero one was parsed and
\* printed back.
C5_Witness ==
  /\ slot[1].op = "from_str"
  /\ IsCanonical(slot[1].src)
  /\ slot[1].src[1] = 122
  /\ slot[1].src[22] = 49
  /\ slot[1].text = slot[1].src

\* C6: a 22-byte string with a byte outside the alphabet at a data position
\* (an index other than 6 and 15), a '-' included, is refused with
\* InvalidDigit of such a byte.
C6_BadDataByteRejected ==
  \A i \in Slots :
    ( /\ slot[i].op = "from_str"
      /\ Len(slot[i].src) = 22
      /\ \E k \in DataPlaces : slot[i].src[k] \notin AlphabetBytes ) =>
      /\ slot[i].id.tag = "InvalidDigit"
      /\ \E k \in DataPlaces :
           /\ slot[i].src[k] \notin AlphabetBytes
           /\ slot[i].src[k] = slot[i].id.byte

\* C7: a canonical string with some letters made uppercase parses to the
\* value of the canonical string.
C7_UppercaseAccepted ==
  \A i \in Slots :
    (slot[i].op = "from_str" /\ IsCanonical(Lower(slot[i].src))) =>
      /\ slot[i].id.tag = "Ok"
      /\ slot[i].id = decode(Lower(slot[i].src))

\* C8: of two 100-bit values the smaller has the text that is first in the
\* byte-wise lexicographic order, and equal values have equal texts.
C8_TextOrder ==
  \A i, j \in Slots :
    ( /\ slot[i].text # <<>>
      /\ slot[j].text # <<>>
      /\ slot[i].id.val = Low100(slot[i].id.val)
      /\ slot[j].id.val = Low100(slot[j].id.val) ) =>
      /\ Lt(slot[i].id.val, slot[j].id.val) => LexLt(slot[i].text, slot[j].text)
      /\ slot[i].id.val = slot[j].id.val => slot[i].text = slot[j].text

\* C8 witness: two values that differ in one digit, 9 and 10, whose
\* characters '9' and 'a' are not next to each other, were both printed.
C8_Witness ==
  /\ slot[1].op = "from_u128" /\ slot[1].id.val = {0, 3}
  /\ slot[2].op = "from_u128" /\ slot[2].id.val = {1, 3}
  /\ slot[1].text # <<>>
  /\ LexLt(slot[1].text, slot[2].text)

C10_DecodeTotal ==
  /\ dec.ret.tag # "Panic"
  /\ dec.n = Low100(dec.n)
  /\ dec.pc = "done" => dec.ret.tag \in {"Ok", "InvalidDigit", "InvalidStrLen"}
  /\ dec.ret.tag = "Ok" => dec.ret.val = Low100(dec.ret.val)

\* C10 witness: 22 digit bytes with no separator among them were decoded, the
\* last two at the place value zero, to 2^100 - 1.
C10_Witness ==
  /\ dec.pc = "done"
  /\ Len(dec.arg) = 22
  /\ \A k \in 1..22 : dec.arg[k] = 122
  /\ dec.ret.tag = "Ok"
  /\ dec.ret.val = 0..99

====
